---------------------------- MODULE Spec2Model ----------------------------
(***************************************************************************)
(* A model of the ReadRight Streamlit application (streamlit_app.py): the  *)
(* two adaptation backends (direct chat-completion API, proxy edge         *)
(* function), the prompt builder, the history filters and the script run   *)
(* of main() over st.session_state.                                        *)
(*                                                                         *)
(* Text is a sequence of tokens: single characters for text that is        *)
(* trimmed, searched or lower-cased, whole literals for the fixed pieces   *)
(* of a message.  Python values (parsed JSON, dicts, None) are tagged      *)
(* records, so that a dict, a list and None stay distinct.                 *)
(***************************************************************************)
EXTENDS Integers, Sequences, FiniteSets, TLC

VARIABLES
    session,          \* st.session_state.session: absent or the session
    user,             \* st.session_state.user
    history_cache,    \* st.session_state.history_cache
    analytics_cache,  \* st.session_state.analytics_cache
    output_text,      \* st.session_state.output_text
    metadata,         \* st.session_state.metadata
    secrets,          \* st.secrets, as adapt_text sees it
    environ,          \* os.environ["OPENAI_API_KEY"]
    calls,            \* the invoker calls of the last step, in order
    view,             \* what the last step put on the page
    args              \* the inputs of a function-level specification

vars == <<session, user, history_cache, analytics_cache, output_text,
          metadata, secrets, environ, calls, view, args>>

(***************************************************************************)
(* Python values                                                           *)
(***************************************************************************)
None == [t |-> "null"]
Absent == [t |-> "absent"]
Invalid == [t |-> "invalid"]
Str(s) == [t |-> "str", s |-> s]
Num(n) == [t |-> "num", n |-> n]
Lst(l) == [t |-> "list", items |-> l]
Obj(f) == [t |-> "obj", f |-> f]
EmptyDict == Obj(<<>>)

\* bool(v) of a Python value.
Truthy(v) ==
    CASE v.t = "str" -> v.s # <<>>
      [] v.t = "num" -> v.n # 0
      [] v.t = "list" -> v.items # <<>>
      [] v.t = "obj" -> DOMAIN v.f # {}
      [] OTHER -> FALSE

IsDict(v) == v.t = "obj"

\* k in d, for a dict d.
HasKey(d, k) == d.t = "obj" /\ k \in DOMAIN d.f

\* d.get(k, default), for a dict d.
Get(d, k, default) == IF k \in DOMAIN d.f THEN d.f[k] ELSE default

\* The element of a one-element set.
The(S) == CHOOSE x \in S : TRUE

\* The outcome of a call: a returned value or a raised exception.
Ret(v) == [k |-> "return", v |-> v]
Raise(e) == [k |-> "raise", e |-> e]

(***************************************************************************)
(* Text                                                                    *)
(***************************************************************************)
Whitespace == {" ", "\n"}

RECURSIVE LStrip(_)
LStrip(s) ==
    IF s # <<>> /\ Head(s) \in Whitespace THEN LStrip(Tail(s)) ELSE s

RECURSIVE RStrip(_)
RStrip(s) ==
    IF s # <<>> /\ s[Len(s)] \in Whitespace
    THEN RStrip(SubSeq(s, 1, Len(s) - 1))
    ELSE s

\* str.strip()
Strip(s) == RStrip(LStrip(s))

\* sub in s
Contains(s, sub) ==
    \E i \in 0..(Len(s) - Len(sub)) : SubSeq(s, i + 1, i + Len(sub)) = sub

LowerChar(c) ==
    CASE c = "A" -> "a"
      [] c = "B" -> "b"
      [] OTHER -> c

\* str.lower()
Lower(s) == [i \in 1..Len(s) |-> LowerChar(s[i])]

(***************************************************************************)
(* Configuration                                                           *)
(***************************************************************************)
SUPABASE_URL == "https://kplxzwwckwlsqusgipvx.supabase.co"
FUNCTION_SLUG == "make-server-f7050fc0"
OPENAI_URL == "https://api.openai.com/v1/chat/completions"
EmptyResponse == <<"<empty response>">>

\* requests.Response.ok
Ok(resp) == resp.status_code < 400


(***************************************************************************)
(* call_function: the proxy invoker                                        *)
(***************************************************************************)
NoBody == [t |-> "nobody"]

\* The request call_function issues: POST with a body, GET without.
FunctionRequest(path, token, body) ==
    [method |-> IF body # NoBody THEN "POST" ELSE "GET",
     url |-> <<SUPABASE_URL, "/functions/v1/", FUNCTION_SLUG, path>>,
     bearer |-> token,
     json |-> body]

\* InvalidJsonError without the placeholder for a blank body.
InvalidJsonErrorNoPlaceholder(resp) ==
    Obj([error |-> Str(<<"Invalid JSON response (status ",
                         ToString(resp.status_code),
                         "). Response body:", " ">> \o Strip(resp.text))])

\* The except branch of resp.json(): status and trimmed body in a message.
InvalidJsonError(resp) ==
    LET stripped == Strip(resp.text)
        text == IF stripped = <<>> THEN EmptyResponse ELSE stripped
    IN  Obj([error |-> Str(<<"Invalid JSON response (status ",
                             ToString(resp.status_code),
                             "). Response body:", " ">> \o text)])

\* The "not resp.ok" branch: data.get("error", data) raises on a non-dict.
NotOkError(data) ==
    IF IsDict(data)
    THEN Ret(Obj([error |-> Get(data, "error", data)]))
    ELSE Raise("AttributeError")

\* What call_function makes of the response to its one request.
FunctionResult(resp) ==
    IF resp.kind = "exc"
    THEN Ret(Obj([error |-> Str(<<"Failed to call function: ", resp.exc>>)]))
    ELSE IF resp.json = Invalid
    THEN Ret(InvalidJsonError(resp))
    ELSE IF ~Ok(resp)
    THEN NotOkError(resp.json)
    ELSE Ret(resp.json)

call_function(path, token, body, resp) ==
    [backend |-> "proxy",
     net |-> <<FunctionRequest(path, token, body)>>,
     resp |-> resp,
     out |-> FunctionResult(resp)]

fetch_history(token, resp) == call_function("/history", token, NoBody, resp)

fetch_analytics(token, resp) == call_function("/analytics", token, NoBody, resp)

(***************************************************************************)
(* adapt_text: credential lookup, prompt, the direct invoker               *)
(***************************************************************************)
\* st.secrets.get("OPENAI_API_KEY"), read only when st.secrets is a dict
\* instance; an exception on the way leaves the key None.
SecretKey(sec) ==
    IF sec.kind = "dict" THEN Get(sec.data, "OPENAI_API_KEY", None) ELSE None

\* The key adapt_text ends up with: the secret, else os.getenv.
OpenAIKey(sec, env) ==
    IF ~Truthy(SecretKey(sec)) THEN env ELSE SecretKey(sec)

\* ModelMap with "advanced" on the premium model.
ModelMapAdvancedPremium ==
    [basic |-> "gpt-3.5-turbo", advanced |-> "gpt-4", premium |-> "gpt-4"]

\* model_map: the OpenAI model of each ReadRight model choice.
ModelMap ==
    [basic |-> "gpt-3.5-turbo", advanced |-> "gpt-3.5-turbo",
     premium |-> "gpt-4"]

\* model_map.get(config.get("aiModel"), "gpt-3.5-turbo")
OpenAIModel(config) ==
    IF config.aiModel \in DOMAIN ModelMap
    THEN ModelMap[config.aiModel]
    ELSE "gpt-3.5-turbo"

Clause(on, text) == IF on THEN <<text>> ELSE <<>>

\* UserPrompt with the second and third clause in the other order.
UserPromptSwapped(config, text) ==
    <<"Rewrite the following text for grade ", config.gradeLevel,
      " reading level.">>
    \o Clause(config.simplifyVocabulary, " Simplify vocabulary.")
    \o Clause(config.shortParagraphs,
              " Break the output into shorter paragraphs.")
    \o Clause(config.addDefinitions,
              " Include brief definitions for complex words in parentheses immediately after the word.")
    \o Clause(config.visualBreaks,
              " Add visual breaks such as bullet points or separators where appropriate.")
    \o Clause(config.comprehensionQuestions,
              " After the adapted text, include a few comprehension questions about the content.")
    \o <<"\n\n">> \o text

\* The user prompt: the grade clause, a clause per set flag, the text.
UserPrompt(config, text) ==
    <<"Rewrite the following text for grade ", config.gradeLevel,
      " reading level.">>
    \o Clause(config.simplifyVocabulary, " Simplify vocabulary.")
    \o Clause(config.addDefinitions,
              " Include brief definitions for complex words in parentheses immediately after the word.")
    \o Clause(config.shortParagraphs,
              " Break the output into shorter paragraphs.")
    \o Clause(config.visualBreaks,
              " Add visual breaks such as bullet points or separators where appropriate.")
    \o Clause(config.comprehensionQuestions,
              " After the adapted text, include a few comprehension questions about the content.")
    \o <<"\n\n">> \o text

SystemPrompt ==
    <<"You are a helpful assistant that adapts educational text for teachers. ",
      "Given a target reading grade level and a piece of text, you rewrite ",
      "the text to match the specified grade while preserving the original meaning.">>

Temperature10 == 7
MaxTokens == 1024
TimeoutSeconds == 60

\* The one request of the direct path.
OpenAIRequest(key, config, text) ==
    [method |-> "POST",
     url |-> <<OPENAI_URL>>,
     bearer |-> key.s,
     json |-> [model |-> OpenAIModel(config),
               messages |-> <<[role |-> "system", content |-> SystemPrompt],
                              [role |-> "user",
                               content |-> UserPrompt(config, text)]>>,
               temperature10 |-> Temperature10,
               max_tokens |-> MaxTokens],
     timeout |-> TimeoutSeconds]

\* OpenAIStatusError with an empty adaptedText beside the error.
OpenAIStatusErrorWithText(resp) ==
    LET stripped == Strip(resp.text)
        body == IF stripped = <<>> THEN EmptyResponse ELSE stripped
    IN  Obj([error |-> Str(<<"OpenAI API error (status ",
                             ToString(resp.status_code), "):", " ">>
                           \o body),
             adaptedText |-> Str(<<>>)])

\* OpenAIStatusError without the placeholder for a blank body.
OpenAIStatusErrorNoPlaceholder(resp) ==
    Obj([error |-> Str(<<"OpenAI API error (status ",
                         ToString(resp.status_code), "):", " ">>
                       \o Strip(resp.text))])

\* The "not resp.ok" branch of the direct path.
OpenAIStatusError(resp) ==
    LET stripped == Strip(resp.text)
        body == IF stripped = <<>> THEN EmptyResponse ELSE stripped
    IN  Obj([error |-> Str(<<"OpenAI API error (status ",
                             ToString(resp.status_code), "):", " ">>
                           \o body)])

\* FirstChoiceText without the strip().
FirstChoiceTextUntrimmed(choices) ==
    IF choices.t = "obj" THEN Raise("KeyError")
    ELSE IF choices.t # "list" THEN Raise("TypeError")
    ELSE LET c == choices.items[1] IN
         IF c.t = "obj" /\ ~HasKey(c, "message") THEN Raise("KeyError")
         ELSE IF c.t # "obj" THEN Raise("TypeError")
         ELSE LET m == c.f.message IN
              IF m.t = "obj" /\ ~HasKey(m, "content") THEN Raise("KeyError")
              ELSE IF m.t # "obj" THEN Raise("TypeError")
              ELSE IF m.f.content.t # "str" THEN Raise("AttributeError")
              ELSE Ret(m.f.content.s)

\* choices[0]["message"]["content"].strip(): the text, or the exception.
FirstChoiceText(choices) ==
    IF choices.t = "obj" THEN Raise("KeyError")
    ELSE IF choices.t # "list" THEN Raise("TypeError")
    ELSE LET c == choices.items[1] IN
         IF c.t = "obj" /\ ~HasKey(c, "message") THEN Raise("KeyError")
         ELSE IF c.t # "obj" THEN Raise("TypeError")
         ELSE LET m == c.f.message IN
              IF m.t = "obj" /\ ~HasKey(m, "content") THEN Raise("KeyError")
              ELSE IF m.t # "obj" THEN Raise("TypeError")
              ELSE IF m.f.content.t # "str" THEN Raise("AttributeError")
              ELSE Ret(Strip(m.f.content.s))

\* The metadata dict: the model, and the usage counts when "usage" in data.
Metadata(data, openai_model) ==
    IF ~HasKey(data, "usage")
    THEN Ret(Obj([model |-> Str(<<openai_model>>)]))
    ELSE IF ~IsDict(data.f.usage)
    THEN Raise("AttributeError")
    ELSE Ret(Obj([model |-> Str(<<openai_model>>),
                  promptTokens |-> Get(data.f.usage, "prompt_tokens", None),
                  completionTokens |->
                      Get(data.f.usage, "completion_tokens", None),
                  totalTokens |-> Get(data.f.usage, "total_tokens", None)]))

\* The try block after a success status; Raise is what the except catches.
ParseCompletion(resp, openai_model) ==
    IF resp.json = Invalid THEN Raise("JSONDecodeError")
    ELSE IF ~IsDict(resp.json) THEN Raise("AttributeError")
    ELSE LET choices == Get(resp.json, "choices", Lst(<<>>)) IN
         IF ~Truthy(choices)
         THEN Ret(Obj([error |-> Str(<<"OpenAI API returned no choices.">>)]))
         ELSE LET adapted == FirstChoiceText(choices)
                  meta == Metadata(resp.json, openai_model)
              IN  IF adapted.k = "raise" THEN adapted
                  ELSE IF meta.k = "raise" THEN meta
                  ELSE Ret(Obj([adaptedText |-> Str(adapted.v),
                                metadata |-> meta.v]))

\* What the direct path returns for the response to its one request.
OpenAIResult(resp, openai_model) ==
    IF resp.kind = "exc"
    THEN Obj([error |-> Str(<<"Failed to call OpenAI API: ", resp.exc>>)])
    ELSE IF ~Ok(resp)
    THEN OpenAIStatusError(resp)
    ELSE LET parsed == ParseCompletion(resp, openai_model) IN
         IF parsed.k = "raise"
         THEN Obj([error |-> Str(<<"Failed to parse OpenAI response: ",
                                   parsed.e>>)])
         ELSE parsed.v

\* The backend adapt_text picks with the credentials of this call.
Provider(sec, env) == IF Truthy(OpenAIKey(sec, env)) THEN "direct" ELSE "proxy"

adapt_text(token, text, config, sec, env, resp) ==
    IF Provider(sec, env) = "direct"
    THEN [backend |-> "direct",
          net |-> <<OpenAIRequest(OpenAIKey(sec, env), config, text)>>,
          resp |-> resp,
          out |-> Ret(OpenAIResult(resp, OpenAIModel(config)))]
    ELSE call_function("/adapt-text", token,
                       [text |-> text, config |-> config], resp)

(***************************************************************************)
(* The environment: sessions, credentials, configurations, responses       *)
(***************************************************************************)
Tokens == {"tokA", "tokB"}

\* st.secrets: a plain dict, Streamlit's Secrets mapping (not a dict
\* instance), or an object whose access raises; with or without a key.
SecretStores ==
    [kind : {"dict", "mapping", "raises"},
     data : {EmptyDict,
             Obj([OPENAI_API_KEY |-> Str(<<>>)]),
             Obj([OPENAI_API_KEY |-> Str(<<"sk-secret">>)])}]

\* os.getenv("OPENAI_API_KEY"): unset, or set.
Environs == {None, Str(<<"sk-env">>)}

grade_keys ==
    <<"k", "1", "2", "3", "4", "5", "6", "7", "8", "9", "10", "11", "12">>

model_keys == <<"basic", "advanced", "premium">>

Range(f) == {f[i] : i \in DOMAIN f}

\* The dict main() builds from the sidebar widgets.
Config(grade, model, sv, ad, sp, vb, cq) ==
    [gradeLevel |-> grade, aiModel |-> model, simplifyVocabulary |-> sv,
     addDefinitions |-> ad, shortParagraphs |-> sp, visualBreaks |-> vb,
     comprehensionQuestions |-> cq]

\* The widget defaults, per model.
DefaultConfigs ==
    {Config("2", m, TRUE, TRUE, TRUE, FALSE, TRUE) : m \in Range(model_keys)}

SampleText == <<"a", " ", "B">>

MaxBody == 2

\* All texts of at most n tokens over the alphabet.
RECURSIVE TextsUpTo(_, _)
TextsUpTo(alphabet, n) ==
    IF n = 0 THEN {<<>>}
    ELSE LET shorter == TextsUpTo(alphabet, n - 1) IN
         shorter \cup {Append(t, c) : t \in shorter, c \in alphabet}

\* Bodies that are not JSON: blank ones, and ones with whitespace around.
NonJsonBodies ==
    {[text |-> t, json |-> Invalid] : t \in TextsUpTo({" ", "x"}, MaxBody)}

JsonBody(text, value) == [text |-> <<text>>, json |-> value]

Hi == Str(<<"H", "i">>)
Boom == Str(<<"b", "o", "o", "m">>)

\* JSON bodies of the edge function: conforming and not.
ProxyJsonBodies ==
    {JsonBody("{}", EmptyDict),
     JsonBody("{'error':'boom'}", Obj([error |-> Boom])),
     JsonBody("{'error':''}", Obj([error |-> Str(<<>>)])),
     JsonBody("{'message':'boom'}", Obj([message |-> Boom])),
     JsonBody("{'adaptedText':'Hi','metadata':{'model':'m'}}",
              Obj([adaptedText |-> Hi,
                   metadata |-> Obj([model |-> Str(<<"m">>)])])),
     JsonBody("{'adaptedText':'Hi'}", Obj([adaptedText |-> Hi])),
     JsonBody("{'adaptedText':'Hi','error':'boom'}",
              Obj([adaptedText |-> Hi, error |-> Boom])),
     JsonBody("{'history':[]}", Obj([history |-> Lst(<<>>)])),
     JsonBody("{'stats':{}}", Obj([stats |-> EmptyDict])),
     JsonBody("[]", Lst(<<>>)),
     JsonBody("null", None),
     JsonBody("'boom'", Boom)}

Message(content) == Obj([message |-> Obj([content |-> content])])
PaddedHi == Str(<<" ", "H", "i", "\n">>)
Usage ==
    Obj([prompt_tokens |-> Num(1), completion_tokens |-> Num(2),
         total_tokens |-> Num(3)])

\* JSON bodies of the chat-completion API: well-formed and not.
OpenAIJsonBodies ==
    {JsonBody("{}", EmptyDict),
     JsonBody("{'choices':[]}", Obj([choices |-> Lst(<<>>)])),
     JsonBody("{'choices':[{'message':{'content':' Hi\n'}}]}",
              Obj([choices |-> Lst(<<Message(PaddedHi)>>)])),
     JsonBody("{'choices':[{'message':{'content':' Hi\n'}},{'message':{'content':'boom'}}]}",
              Obj([choices |-> Lst(<<Message(PaddedHi), Message(Boom)>>)])),
     JsonBody("{'choices':[{'message':{'content':' Hi\n'}}],'usage':{...}}",
              Obj([choices |-> Lst(<<Message(PaddedHi)>>), usage |-> Usage])),
     JsonBody("{'choices':[{'message':{'content':' Hi\n'}}],'usage':{'total_tokens':3}}",
              Obj([choices |-> Lst(<<Message(PaddedHi)>>),
                   usage |-> Obj([total_tokens |-> Num(3)])])),
     JsonBody("{'choices':[{'message':{'content':' Hi\n'}}],'usage':null}",
              Obj([choices |-> Lst(<<Message(PaddedHi)>>), usage |-> None])),
     JsonBody("{'choices':[{}]}", Obj([choices |-> Lst(<<EmptyDict>>)])),
     JsonBody("{'choices':[{'message':{'content':null}}]}",
              Obj([choices |-> Lst(<<Message(None)>>)])),
     JsonBody("{'choices':'boom'}", Obj([choices |-> Boom])),
     JsonBody("{'error':'boom'}", Obj([error |-> Boom])),
     JsonBody("[]", Lst(<<>>))}

Statuses == {200, 404, 500}

TransportFailures ==
    {[kind |-> "exc", exc |-> e] : e \in {"ConnectionError", "Timeout"}}

Http(status, body) ==
    [kind |-> "http", status_code |-> status, text |-> body.text,
     json |-> body.json]

ProxyResponses ==
    TransportFailures
    \cup {Http(st, b) : st \in Statuses, b \in NonJsonBodies \cup ProxyJsonBodies}

OpenAIResponses ==
    TransportFailures
    \cup {Http(st, b) : st \in Statuses, b \in NonJsonBodies \cup OpenAIJsonBodies}

\* The responses the backend picked by these credentials can give.
ResponsesFor(provider) ==
    IF provider = "direct" THEN OpenAIResponses ELSE ProxyResponses

(***************************************************************************)
(* SpecInvoke: the three invokers under changing credentials               *)
(***************************************************************************)
\* The session and the user a sign-in stores.
Session(token) == [t |-> "session", access_token |-> token]
User(token) == [t |-> "user", id |-> token]

SessionInit ==
    /\ session = Absent
    /\ user = Absent
    /\ history_cache = Absent
    /\ analytics_cache = Absent
    /\ output_text = Absent
    /\ metadata = Absent

NoView == [notices |-> <<>>]

InvokeInit ==
    /\ SessionInit
    /\ secrets \in SecretStores
    /\ environ \in Environs
    /\ calls = <<>>
    /\ view = NoView
    /\ args = None

session_vars ==
    <<session, user, history_cache, analytics_cache, output_text, metadata>>

\* The deployment's secrets change (no call is made).
SetSecrets ==
    /\ \E s \in SecretStores \ {secrets} : secrets' = s
    /\ calls' = <<>>
    /\ UNCHANGED <<session_vars, environ, view, args>>

\* The environment variable is set or unset (no call is made).
SetEnviron ==
    /\ \E e \in Environs \ {environ} : environ' = e
    /\ calls' = <<>>
    /\ UNCHANGED <<session_vars, secrets, view, args>>

InvokeAdapt ==
    /\ \E token \in Tokens, config \in DefaultConfigs,
          resp \in ResponsesFor(Provider(secrets, environ)) :
          calls' = <<[fn |-> "adapt_text", config |-> config,
                      text |-> SampleText,
                      call |-> adapt_text(token, SampleText, config,
                                          secrets, environ, resp)]>>
    /\ UNCHANGED <<session_vars, secrets, environ, view, args>>

InvokeHistory ==
    /\ \E token \in Tokens, resp \in ProxyResponses :
          calls' = <<[fn |-> "fetch_history", call |->
                        fetch_history(token, resp)]>>
    /\ UNCHANGED <<session_vars, secrets, environ, view, args>>

InvokeAnalytics ==
    /\ \E token \in Tokens, resp \in ProxyResponses :
          calls' = <<[fn |-> "fetch_analytics", call |->
                        fetch_analytics(token, resp)]>>
    /\ UNCHANGED <<session_vars, secrets, environ, view, args>>

InvokeNext ==
    \/ SetSecrets
    \/ SetEnviron
    \/ InvokeAdapt
    \/ InvokeHistory
    \/ InvokeAnalytics

SpecInvoke == InvokeInit /\ [][InvokeNext]_vars

(***************************************************************************)
(* Properties of the invokers (checked under SpecInvoke)                   *)
(***************************************************************************)
LastCalls == Range(calls)

AdaptCalls == {c \in LastCalls : c.fn = "adapt_text"}

\* A value that carries adaptedText and no error.
IsAdaptationResult(v) ==
    IsDict(v) /\ HasKey(v, "adaptedText") /\ ~HasKey(v, "error")

\* A value that carries a single error string and no adaptedText.
IsErrorResult(v) ==
    /\ IsDict(v) /\ HasKey(v, "error") /\ ~HasKey(v, "adaptedText")
    /\ v.f.error.t = "str"

IsResult(v) == IsAdaptationResult(v) \/ IsErrorResult(v)

\* C1, as claimed: every value adapt_text returns, on either path and for
\* every backend response, is an AdaptationResult or an ErrorResult.
C1_EveryReturnIsResult ==
    \A c \in AdaptCalls : c.call.out.k = "return" => IsResult(c.call.out.v)

\* The values adapt_text builds itself: all of the direct path, and on the
\* proxy path those for a transport failure or a body that is not JSON.
BuiltByInvoker(call) ==
    \/ call.backend = "direct"
    \/ call.resp.kind = "exc"
    \/ call.resp.json = Invalid

\* C1, amended: every value adapt_text returns on the direct path, and on
\* the proxy path for a transport failure or a non-JSON body, is exactly one
\* of an AdaptationResult or an ErrorResult; a JSON body of the proxy is
\* handed on without validation.
C1_BuiltReturnIsResult ==
    \A c \in AdaptCalls :
        BuiltByInvoker(c.call) =>
            /\ c.call.out.k = "return"
            /\ IsResult(c.call.out.v)
            /\ ~(IsAdaptationResult(c.call.out.v) /\ IsErrorResult(c.call.out.v))

\* C1 witness: the direct path turned a success response it could not read
\* into an ErrorResult.
C1_Witness ==
    \E c \in AdaptCalls :
        /\ c.call.backend = "direct"
        /\ c.call.resp.kind = "http" /\ Ok(c.call.resp)
        /\ c.call.resp.json = Obj([choices |-> Lst(<<EmptyDict>>)])
        /\ IsErrorResult(c.call.out.v)

\* A non-empty key the secret store holds, when the store can be read.
StoredSecret ==
    IF secrets.kind = "raises" THEN None
    ELSE Get(secrets.data, "OPENAI_API_KEY", None)

\* C2: every call of adapt_text uses the direct backend if and only if a
\* non-empty credential is present at that call, in the secret store first,
\* then in the environment variable; nothing is cached between calls.
C2_DirectIffCredential ==
    \A c \in AdaptCalls :
        c.call.backend = "direct" <=> (Truthy(StoredSecret) \/ Truthy(environ))

\* A response that is a failure: transport, status, or an unreadable body.
FailedResponse(resp) ==
    resp.kind = "exc" \/ ~Ok(resp) \/ resp.json = Invalid

\* C5: every invocation issues at most one network call, a direct call is
\* never followed by a proxy call, and every failure comes back to the
\* caller as an error result.
C5_OneCallAndErrorResult ==
    \A c \in LastCalls :
        /\ Len(c.call.net) <= 1
        /\ \A i \in DOMAIN c.call.net :
              c.call.backend = "direct" => c.call.net[i].url = <<OPENAI_URL>>
        /\ FailedResponse(c.call.resp) =>
              c.call.out.k = "return" /\ HasKey(c.call.out.v, "error")

\* C6: for a non-success status and a JSON body, call_function returns an
\* ErrorResult whose error is the body's "error" field if it has one, and
\* the whole parsed body otherwise, for every parsed body and every route.
C6_NotOkJsonGivesError ==
    \A c \in LastCalls :
        (/\ c.call.backend = "proxy"
         /\ c.call.resp.kind = "http"
         /\ c.call.resp.json # Invalid
         /\ ~Ok(c.call.resp)) =>
            c.call.out =
                Ret(Obj([error |->
                    IF HasKey(c.call.resp.json, "error")
                    THEN c.call.resp.json.f.error
                    ELSE c.call.resp.json]))

\* A success response of the direct backend with at least one choice.
HasChoice(resp) ==
    /\ resp.kind = "http" /\ Ok(resp)
    /\ HasKey(resp.json, "choices")
    /\ resp.json.f.choices.t = "list"
    /\ resp.json.f.choices.items # <<>>

\* The first choice carries a text, and usage, if supplied, is an object.
WellFormedCompletion(resp) ==
    /\ HasChoice(resp)
    /\ LET c == resp.json.f.choices.items[1] IN
          /\ HasKey(c, "message")
          /\ HasKey(c.f.message, "content")
          /\ c.f.message.f.content.t = "str"
    /\ HasKey(resp.json, "usage") => IsDict(resp.json.f.usage)

UsageKeys == {"promptTokens", "completionTokens", "totalTokens"}

\* The result C7 describes for a response: trimmed text of the first choice,
\* the resolved model, the usage counts exactly when usage was supplied.
IsAdaptationOf(v, resp, config) ==
    /\ IsAdaptationResult(v)
    /\ HasKey(resp.json.f.choices.items[1], "message")
    /\ HasKey(resp.json.f.choices.items[1].f.message, "content")
    /\ resp.json.f.choices.items[1].f.message.f.content.t = "str"
    /\ v.f.adaptedText =
          Str(Strip(resp.json.f.choices.items[1].f.message.f.content.s))
    /\ HasKey(v, "metadata")
    /\ v.f.metadata.f.model = Str(<<OpenAIModel(config)>>)
    /\ IF HasKey(resp.json, "usage")
       THEN /\ DOMAIN v.f.metadata.f = {"model"} \cup UsageKeys
            /\ IsDict(resp.json.f.usage)
            /\ v.f.metadata.f.promptTokens =
                  Get(resp.json.f.usage, "prompt_tokens", None)
            /\ v.f.metadata.f.completionTokens =
                  Get(resp.json.f.usage, "completion_tokens", None)
            /\ v.f.metadata.f.totalTokens =
                  Get(resp.json.f.usage, "total_tokens", None)
       ELSE DOMAIN v.f.metadata.f = {"model"}

\* C7, as claimed: on the direct path every success response with at least
\* one choice yields an AdaptationResult with the trimmed first text and the
\* metadata.
C7_AnyChoiceGivesAdaptation ==
    \A c \in AdaptCalls :
        (c.call.backend = "direct" /\ HasChoice(c.call.resp)) =>
            IsAdaptationOf(c.call.out.v, c.call.resp, c.config)

\* C7, amended: on the direct path every success response with at least one
\* choice whose first choice carries a message content string, and whose
\* usage, when supplied, is an object, yields an AdaptationResult with the
\* trimmed first text, the resolved model and the usage counts exactly when
\* usage was supplied; absent counts are None and never an error.
C7_WellFormedChoiceGivesAdaptation ==
    \A c \in AdaptCalls :
        (c.call.backend = "direct" /\ WellFormedCompletion(c.call.resp)) =>
            IsAdaptationOf(c.call.out.v, c.call.resp, c.config)

\* C7 witness: a completion with padded text and a partial usage object
\* was adapted.
C7_Witness ==
    \E c \in AdaptCalls :
        /\ c.call.backend = "direct"
        /\ WellFormedCompletion(c.call.resp)
        /\ HasKey(c.call.resp.json, "usage")
        /\ ~HasKey(c.call.resp.json.f.usage, "prompt_tokens")
        /\ c.call.out.v.f.adaptedText = Hi
        /\ c.call.out.v.f.metadata.f.promptTokens = None

\* The error message of a returned error dict, as text.
ErrorText(out) ==
    IF out.k = "return" /\ HasKey(out.v, "error") /\ out.v.f.error.t = "str"
    THEN out.v.f.error.s
    ELSE <<>>

NonJsonProxyCalls ==
    {c \in LastCalls :
        /\ c.call.backend = "proxy"
        /\ c.call.resp.kind = "http"
        /\ c.call.resp.json = Invalid}

IsBlank(text) == Strip(text) = <<>>

DirectStatusErrorCalls ==
    {c \in AdaptCalls :
        /\ c.call.backend = "direct"
        /\ c.call.resp.kind = "http"
        /\ ~Ok(c.call.resp)}

\* The result is the status error of the direct path: an ErrorResult, not
\* an adaptation and not an error of the parsing of choices.
IsStatusError(out) ==
    /\ out.k = "return"
    /\ IsErrorResult(out.v)
    /\ ErrorText(out)[1] = "OpenAI API error (status "

\* C11, as claimed: for a direct-backend response with a non-success status
\* adapt_text returns an ErrorResult whose message contains the status code
\* and the response body text, with "<empty response>" in place of a blank
\* body; the body is not parsed for choices.
C11_StatusErrorHasBody ==
    \A c \in DirectStatusErrorCalls :
        /\ IsStatusError(c.call.out)
        /\ Contains(ErrorText(c.call.out),
                    <<ToString(c.call.resp.status_code)>>)
        /\ Contains(ErrorText(c.call.out),
                    IF IsBlank(c.call.resp.text) THEN EmptyResponse
                    ELSE c.call.resp.text)

\* C11, amended: for a direct-backend response with a non-success status
\* adapt_text returns an ErrorResult whose message contains the status code
\* and the body text trimmed of surrounding whitespace, with
\* "<empty response>" in place of a blank body; the body is not parsed for
\* choices, whatever it holds.
C11_StatusErrorHasTrimmedBody ==
    \A c \in DirectStatusErrorCalls :
        /\ IsStatusError(c.call.out)
        /\ Contains(ErrorText(c.call.out),
                    <<ToString(c.call.resp.status_code)>>)
        /\ Contains(ErrorText(c.call.out),
                    IF IsBlank(c.call.resp.text) THEN EmptyResponse
                    ELSE Strip(c.call.resp.text))

\* C11 witness: status 500 with an empty body was reported with "500" and
\* the placeholder.
C11_Witness ==
    \E c \in DirectStatusErrorCalls :
        /\ c.call.resp.status_code = 500
        /\ c.call.resp.text = <<>>
        /\ Contains(ErrorText(c.call.out), <<"500">>)
        /\ Contains(ErrorText(c.call.out), EmptyResponse)

(***************************************************************************)
(* SpecPrompt: the request of the direct path, for every configuration     *)
(***************************************************************************)
\* The thirteen grades of the sidebar and one value outside the enum.
PromptGrades == Range(grade_keys) \cup {"college"}

AllConfigs ==
    {Config(g, m, sv, ad, sp, vb, cq) :
        g \in PromptGrades, m \in Range(model_keys),
        sv \in BOOLEAN, ad \in BOOLEAN, sp \in BOOLEAN, vb \in BOOLEAN,
        cq \in BOOLEAN}

\* Raw input texts: plain, and with whitespace and blank lines inside.
PromptTexts == {SampleText, <<" ", "a", "\n", "\n", "B", "\n">>}

PromptResponses ==
    {[kind |-> "exc", exc |-> "Timeout"],
     Http(200, JsonBody("{'choices':[{'message':{'content':' Hi\n'}}]}",
                        Obj([choices |-> Lst(<<Message(PaddedHi)>>)])))}

PromptInit ==
    /\ SessionInit
    /\ secrets = [kind |-> "mapping", data |-> EmptyDict]
    /\ environ = Str(<<"sk-env">>)
    /\ calls = <<>>
    /\ view = NoView
    /\ args \in [config : AllConfigs, text : PromptTexts]

\* adapt_text on the drawn configuration and text.
PromptCall ==
    /\ \E token \in Tokens, resp \in PromptResponses :
          calls' = <<[fn |-> "adapt_text", config |-> args.config,
                      text |-> args.text,
                      call |-> adapt_text(token, args.text, args.config,
                                          secrets, environ, resp)]>>
    /\ UNCHANGED <<session_vars, secrets, environ, view, args>>

PromptNext == PromptCall

SpecPrompt == PromptInit /\ [][PromptNext]_vars

FlagOrder ==
    <<"simplifyVocabulary", "addDefinitions", "shortParagraphs",
      "visualBreaks", "comprehensionQuestions">>

FlagClause ==
    [simplifyVocabulary |-> " Simplify vocabulary.",
     addDefinitions |->
         " Include brief definitions for complex words in parentheses immediately after the word.",
     shortParagraphs |-> " Break the output into shorter paragraphs.",
     visualBreaks |->
         " Add visual breaks such as bullet points or separators where appropriate.",
     comprehensionQuestions |->
         " After the adapted text, include a few comprehension questions about the content."]

\* The flags of a configuration that are true, in the fixed order.
TrueFlags(config) ==
    LET on(flag) == config[flag] IN SelectSeq(FlagOrder, on)

\* The user prompt sent in a request.
SentPrompt(call) == call.net[1].json.messages[2].content

\* C8: for every configuration the user prompt is the grade clause with the
\* grade unchanged, then exactly the clauses of the true flags in the fixed
\* order, then the blank-line separator and the raw text verbatim; with all
\* flags false it is the grade clause, the separator and the text.
C8_PromptClauseOrder ==
    \A c \in AdaptCalls :
        c.call.backend = "direct" =>
            LET flags == TrueFlags(c.config)
                prompt == SentPrompt(c.call)
            IN  /\ Len(prompt) = 3 + Len(flags) + 1 + Len(c.text)
                /\ SubSeq(prompt, 1, 3) =
                      <<"Rewrite the following text for grade ",
                        c.config.gradeLevel, " reading level.">>
                /\ \A i \in 1..Len(flags) :
                      prompt[3 + i] = FlagClause[flags[i]]
                /\ prompt[3 + Len(flags) + 1] = "\n\n"
                /\ SubSeq(prompt, 3 + Len(flags) + 2, Len(prompt)) = c.text
                /\ (flags = <<>> =>
                      prompt = <<"Rewrite the following text for grade ",
                                 c.config.gradeLevel, " reading level.",
                                 "\n\n">> \o c.text)

\* C8 witness: a request went out for an out-of-enum grade with the second
\* and the last flag set and the others clear.
C8_Witness ==
    \E c \in AdaptCalls :
        /\ c.call.backend = "direct"
        /\ c.config.gradeLevel = "college"
        /\ TrueFlags(c.config) = <<"addDefinitions", "comprehensionQuestions">>
        /\ Len(SentPrompt(c.call)) = 6 + Len(c.text)

PremiumModel == "gpt-4"
EconomyModel == "gpt-3.5-turbo"

\* The calls of the direct path, each with the one request it sent.
DirectCalls == {c \in AdaptCalls : c.call.backend = "direct"}

\* C12: on the direct path aiModel "premium" resolves to the premium model
\* identifier, "basic" and "advanced" both resolve to the one economy
\* identifier, which differs from the premium one; the resolved identifier
\* is the model of the request sent and the model of the result metadata.
C12_ModelResolution ==
    /\ PremiumModel # EconomyModel
    /\ \A c \in DirectCalls :
           LET resolved == IF c.config.aiModel = "premium" THEN PremiumModel
                           ELSE EconomyModel
           IN  /\ Len(c.call.net) = 1
               /\ c.call.net[1].json.model = resolved
               /\ IsAdaptationResult(c.call.out.v) =>
                      c.call.out.v.f.metadata.f.model = Str(<<resolved>>)

\* C12 witness: an "advanced" request went out for the economy model and
\* its adaptation reports that model.
C12_Witness ==
    \E c \in DirectCalls :
        /\ c.config.aiModel = "advanced"
        /\ c.call.net[1].json.model = EconomyModel
        /\ IsAdaptationResult(c.call.out.v)
        /\ c.call.out.v.f.metadata.f.model = Str(<<EconomyModel>>)

(***************************************************************************)
(* The history filters of main()                                           *)
(***************************************************************************)
\* entry.get(key, "") as text.
EntryText(entry, key) == Get(entry, key, Str(<<>>)).s

\* SearchMatches without the lower().
SearchMatchesCaseSensitive(entry, search) ==
    \/ Contains(EntryText(entry, "originalText"), search)
    \/ Contains(EntryText(entry, "adaptedText"), search)

\* The search comprehension: lower-cased substring of either text.
SearchMatches(entry, search) ==
    \/ Contains(Lower(EntryText(entry, "originalText")), Lower(search))
    \/ Contains(Lower(EntryText(entry, "adaptedText")), Lower(search))

SearchFilter(filtered, search) ==
    IF search # <<>>
    THEN LET keep(entry) == SearchMatches(entry, search)
         IN  SelectSeq(filtered, keep)
    ELSE filtered

GradeFilter(filtered, grade_filter) ==
    IF grade_filter # "all"
    THEN LET keep(entry) ==
                 Get(entry.f.config, "gradeLevel", None) = Str(<<grade_filter>>)
         IN  SelectSeq(filtered, keep)
    ELSE filtered

ModelFilter(filtered, model_filter) ==
    IF model_filter # "all"
    THEN LET keep(entry) ==
                 Get(entry.f.config, "aiModel", None) = Str(<<model_filter>>)
         IN  SelectSeq(filtered, keep)
    ELSE filtered

\* The entries the History tab lists; nothing when the cache is falsy.
FilteredHistory(history_data, search, grade_filter, model_filter) ==
    IF Truthy(history_data)
    THEN ModelFilter(GradeFilter(SearchFilter(history_data.items, search),
                                 grade_filter),
                     model_filter)
    ELSE <<>>

(***************************************************************************)
(* SpecFilter: the filters, for every cached list and filter setting       *)
(***************************************************************************)
MaxHistory == 2

HistoryEntry(original, adapted, grade, model) ==
    Obj([originalText |-> Str(original), adaptedText |-> Str(adapted),
         config |-> Obj([gradeLevel |-> Str(<<grade>>),
                         aiModel |-> Str(<<model>>)])])

\* Entries with and without an originalText, in mixed case.
HistoryEntries ==
    {HistoryEntry(o, a, g, m) :
        o \in {<<"a", "B">>}, a \in {<<"b">>, <<"B", "a">>},
        g \in {"2", "5"}, m \in {"basic", "premium"}}
    \cup {Obj([adaptedText |-> Str(a),
               config |-> Obj([gradeLevel |-> Str(<<g>>),
                               aiModel |-> Str(<<m>>)])]) :
            a \in {<<"b">>, <<"B", "a">>}, g \in {"2", "5"},
            m \in {"basic", "premium"}}

RECURSIVE ListsUpTo(_, _)
ListsUpTo(S, n) ==
    IF n = 0 THEN {<<>>}
    ELSE LET shorter == ListsUpTo(S, n - 1) IN
         shorter \cup {Append(l, e) : l \in shorter, e \in S}

Searches == {<<>>, <<"a">>, <<"A", "b">>, <<"b", "a">>}
GradeFilters == {"all", "2", "5"}
ModelFilters == {"all", "basic", "premium"}

FilterInit ==
    /\ session = Session("tokA")
    /\ user = User("tokA")
    /\ analytics_cache = Absent
    /\ output_text = Absent
    /\ metadata = Absent
    /\ secrets = [kind |-> "mapping", data |-> EmptyDict]
    /\ environ = None
    /\ calls = <<>>
    /\ view = NoView
    /\ args \in [history : {Lst(l) : l \in ListsUpTo(HistoryEntries, MaxHistory)},
                 search : Searches, grade_filter : GradeFilters,
                 model_filter : ModelFilters]
    /\ history_cache = args.history

\* The History tab lists the cache under the drawn filter settings.
FilterRender ==
    /\ view = NoView
    /\ view' = [notices |-> <<>>,
                filtered |-> FilteredHistory(history_cache, args.search,
                                             args.grade_filter,
                                             args.model_filter)]
    /\ UNCHANGED <<session_vars, secrets, environ, calls, args>>

FilterNext == FilterRender

SpecFilter == FilterInit /\ [][FilterNext]_vars

\* An entry passes every active filter at once.
PassesAll(entry, search, grade_filter, model_filter) ==
    /\ search # <<>> =>
          \E text \in {EntryText(entry, "originalText"),
                       EntryText(entry, "adaptedText")} :
              Contains(Lower(text), Lower(search))
    /\ grade_filter # "all" =>
          /\ HasKey(entry.f.config, "gradeLevel")
          /\ entry.f.config.f.gradeLevel = Str(<<grade_filter>>)
    /\ model_filter # "all" =>
          /\ HasKey(entry.f.config, "aiModel")
          /\ entry.f.config.f.aiModel = Str(<<model_filter>>)

\* The positions of a list whose entries pass, in order.
RECURSIVE PassingFrom(_, _, _, _, _)
PassingFrom(items, i, search, grade_filter, model_filter) ==
    IF i > Len(items) THEN <<>>
    ELSE (IF PassesAll(items[i], search, grade_filter, model_filter)
          THEN <<items[i]>> ELSE <<>>)
         \o PassingFrom(items, i + 1, search, grade_filter, model_filter)

\* C9: the listed entries are exactly the cached entries, in cached order,
\* that pass all active filters at once; an inactive filter restricts
\* nothing; filtering leaves the cache as it was.
C9_FiltersCombineWithAnd ==
    "filtered" \in DOMAIN view =>
        /\ view.filtered =
              PassingFrom(args.history.items, 1, args.search,
                          args.grade_filter, args.model_filter)
        /\ (args.search = <<>> /\ args.grade_filter = "all"
            /\ args.model_filter = "all") => view.filtered = args.history.items
        /\ history_cache = args.history

\* C9 witness: of two cached entries graded "2" and "5", the grade filter
\* "2" with a search in another case than the text lists exactly the one
\* entry whose adaptedText matches.
C9_Witness ==
    /\ "filtered" \in DOMAIN view
    /\ Len(args.history.items) = 2
    /\ args.history.items[1].f.config.f.gradeLevel = Str(<<"5">>)
    /\ args.history.items[2].f.config.f.gradeLevel = Str(<<"2">>)
    /\ args.grade_filter = "2"
    /\ args.search = <<"b", "a">>
    /\ ~HasKey(args.history.items[2], "originalText")
    /\ args.history.items[2].f.adaptedText = Str(<<"B", "a">>)
    /\ view.filtered = <<args.history.items[2]>>

(***************************************************************************)
(* main(): one script run over st.session_state                            *)
(*                                                                         *)
(* A run is a record r: the session-state keys, the invoker calls made so  *)
(* far (calls), the notices shown (notices), the outcome of the auth API   *)
(* call (auth) and how the run goes on (run: "running", "returned" at the  *)
(* welcome page, "rerun" after st.experimental_rerun(), or "crashed" at    *)
(* the statement named by crash, where an exception left the script).      *)
(***************************************************************************)
\* st.session_state.get(key) is None
IsNone(v) == v = Absent \/ v = None

Notice(level, text, detail) == [level |-> level, text |-> text, detail |-> detail]

Show(r, level, text, detail) ==
    [r EXCEPT !.notices = Append(@, Notice(level, text, detail))]

Crash(r, site) == [r EXCEPT !.run = "crashed", !.crash = site]

\* sign_out that pops session and user and leaves the two caches.
sign_outKeepsCaches(r, remote) ==
    [r EXCEPT !.auth = remote, !.session = Absent, !.user = Absent]

\* sign_out(): the remote call may raise; the four keys are popped anyway.
sign_out(r, remote) ==
    [r EXCEPT !.auth = remote, !.session = Absent, !.user = Absent,
              !.history_cache = Absent, !.analytics_cache = Absent]

\* The sign-in form: a warning for a blank field, else sign_in().
SignInForm(r, ev) ==
    IF ev.blank
    THEN Show(r, "warning", "Please provide email and password", None)
    ELSE IF ev.auth.k = "raise"
    THEN Show([r EXCEPT !.auth = ev.auth], "error", "Sign in failed: ",
              Str(<<ev.auth.e>>))
    ELSE IF ev.auth.v = None
    THEN Show([r EXCEPT !.auth = ev.auth], "error",
              "Invalid credentials or email confirmation required", None)
    ELSE Show([r EXCEPT !.auth = ev.auth, !.session = ev.auth.v.session,
                        !.user = ev.auth.v.user],
              "success", "Signed in successfully", None)

\* The sign-up form: a warning for a blank field, else sign_up().
SignUpForm(r, ev) ==
    IF ev.blank
    THEN Show(r, "warning", "Please fill in all fields", None)
    ELSE IF ev.auth.k = "raise"
    THEN Show([r EXCEPT !.auth = ev.auth], "error", "Sign up failed: ",
              Str(<<ev.auth.e>>))
    ELSE IF ev.auth.v = None
    THEN Show([r EXCEPT !.auth = ev.auth], "info",
              "Sign up successful. Please check your email to confirm your account.",
              None)
    ELSE Show([r EXCEPT !.auth = ev.auth, !.session = ev.auth.v.session,
                        !.user = ev.auth.v.user],
              "success", "Account created and signed in successfully", None)

\* The sidebar: the forms without a session, the sign-out button with one;
\* then the welcome page ends the run when there is still no session.
Sidebar(r, ev) ==
    LET after ==
            IF IsNone(r.session)
            THEN CASE ev.button = "signin_button" -> SignInForm(r, ev)
                   [] ev.button = "signup_button" -> SignUpForm(r, ev)
                   [] OTHER -> r
            ELSE IF ev.button = "signout_button"
            THEN [sign_out(r, ev.auth) EXCEPT !.run = "rerun"]
            ELSE r
    IN  IF after.run = "running" /\ IsNone(after.session)
        THEN [after EXCEPT !.run = "returned"]
        ELSE after

\* The error test main() applies to every invoker result.
IsFailure(result) == IsDict(result) /\ Truthy(Get(result, "error", None))

\* AdaptResult with the stored output reset when the result is an error.
AdaptResultClearsOnFailure(r, ev, call) ==
    LET called == [r EXCEPT !.calls =
                      Append(@, [fn |-> "adapt_text", config |-> ev.config,
                                 text |-> ev.text, call |-> call])]
    IN  IF call.out.k = "raise" THEN Crash(called, "adapt_text")
        ELSE IF IsFailure(call.out.v)
        THEN Show([called EXCEPT !.output_text = Str(<<>>),
                                 !.metadata = None],
                  "error", "Adaptation failed: ", call.out.v.f.error)
        ELSE IF ~IsDict(call.out.v) THEN Crash(called, "adapt_result")
        ELSE Show([called EXCEPT
                      !.output_text = Get(call.out.v, "adaptedText", Str(<<>>)),
                      !.metadata = Get(call.out.v, "metadata", EmptyDict)],
                  "success", "Text adapted successfully!", None)

\* if adapt_clicked: the call and the two branches on its result.
AdaptResult(r, ev, call) ==
    LET called == [r EXCEPT !.calls =
                      Append(@, [fn |-> "adapt_text", config |-> ev.config,
                                 text |-> ev.text, call |-> call])]
    IN  IF call.out.k = "raise" THEN Crash(called, "adapt_text")
        ELSE IF IsFailure(call.out.v)
        THEN Show(called, "error", "Adaptation failed: ", call.out.v.f.error)
        ELSE IF ~IsDict(call.out.v) THEN Crash(called, "adapt_result")
        ELSE Show([called EXCEPT
                      !.output_text = Get(call.out.v, "adaptedText", Str(<<>>)),
                      !.metadata = Get(call.out.v, "metadata", EmptyDict)],
                  "success", "Text adapted successfully!", None)

AdaptClicked(r, ev, sec, env, resp) ==
    The({AdaptResult(r, ev, call) :
            call \in {adapt_text(r.session.access_token, ev.text, ev.config,
                                 sec, env, resp)}})

\* The "Adapted text" block: the clear button, the metadata caption.
OutputBlock(r, ev) ==
    IF ~Truthy(r.output_text) THEN r
    ELSE IF ev.button = "clear_output"
    THEN [r EXCEPT !.output_text = Str(<<>>), !.metadata = None,
                   !.run = "rerun"]
    ELSE IF Truthy(r.metadata) /\ ~IsDict(r.metadata)
    THEN Crash(r, "metadata_caption")
    ELSE r

\* The "Adapt text" tab.
AdaptTab(r, ev, sec, env, resp) ==
    IF r.run # "running" THEN r
    ELSE IF ev.button = "clear_input" THEN [r EXCEPT !.run = "rerun"]
    ELSE The({IF adapted.run # "running" THEN adapted
              ELSE OutputBlock(adapted, ev) :
                  adapted \in
                      {IF ev.button = "adapt_button"
                       THEN AdaptClicked(init, ev, sec, env, resp)
                       ELSE init :
                           init \in
                               {IF r.output_text = Absent
                                THEN [r EXCEPT !.output_text = Str(<<>>),
                                               !.metadata = None]
                                ELSE r}}})

\* Whether the Analytics tab fetches in this run.
AnalyticsFetches(r, ev) ==
    r.run = "running"
    /\ (ev.button = "refresh_analytics" \/ IsNone(r.analytics_cache))

\* The branches on the result of fetch_analytics.
AnalyticsResult(r, call) ==
    LET called == [r EXCEPT !.calls =
                      Append(@, [fn |-> "fetch_analytics", call |-> call])]
    IN  IF call.out.k = "raise" THEN Crash(called, "fetch_analytics")
        ELSE IF IsFailure(call.out.v)
        THEN Show([called EXCEPT !.analytics_cache = None],
                  "error", "Failed to fetch analytics: ", call.out.v.f.error)
        ELSE [called EXCEPT !.analytics_cache = call.out.v]

\* The Analytics tab: the fetch, the cache, the first read of the page.
AnalyticsTab(r, ev, resp) ==
    IF r.run # "running" THEN r
    ELSE The({IF fetched.run # "running" THEN fetched
              ELSE IF Truthy(fetched.analytics_cache)
                      /\ ~IsDict(fetched.analytics_cache)
              THEN Crash(fetched, "analytics_page")
              ELSE fetched :
                  fetched \in
                      IF AnalyticsFetches(r, ev)
                      THEN {AnalyticsResult(r, call) :
                               call \in {fetch_analytics(
                                            r.session.access_token, resp)}}
                      ELSE {r}})

\* Whether the History tab fetches in this run.
HistoryFetches(r, ev) ==
    r.run = "running"
    /\ (ev.button = "refresh_history" \/ IsNone(r.history_cache))

\* The branches on the result of fetch_history.
HistoryResult(r, call) ==
    LET called == [r EXCEPT !.calls =
                      Append(@, [fn |-> "fetch_history", call |-> call])]
    IN  IF call.out.k = "raise" THEN Crash(called, "fetch_history")
        ELSE IF IsFailure(call.out.v)
        THEN Show([called EXCEPT !.history_cache = None],
                  "error", "Failed to fetch history: ", call.out.v.f.error)
        ELSE IF ~IsDict(call.out.v) THEN Crash(called, "history_result")
        ELSE [called EXCEPT !.history_cache =
                 Get(call.out.v, "history", Lst(<<>>))]

\* The History tab: the fetch and the cache.
HistoryTab(r, ev, resp) ==
    IF ~HistoryFetches(r, ev) THEN r
    ELSE The({HistoryResult(r, call) :
                 call \in {fetch_history(r.session.access_token, resp)}})

\* st.session_state.get("history_cache", [])
ReadHistory(cache) == IF cache = Absent THEN Lst(<<>>) ELSE cache

\* st.session_state.get("analytics_cache")
ReadAnalytics(cache) == IF cache = Absent THEN None ELSE cache

NoEvent == [button |-> "none"]
NoResponse == [kind |-> "none"]

\* The sidebar and the first tab; after st.experimental_rerun() the script
\* starts over with no button clicked.
FirstPart(r, ev, sec, env, resp) ==
    The({IF first.run = "rerun"
         THEN The({AdaptTab(sidebar, NoEvent, sec, env, NoResponse) :
                      sidebar \in {Sidebar([first EXCEPT !.run = "running",
                                                         !.rerun = TRUE],
                                           NoEvent)}})
         ELSE first :
             first \in {AdaptTab(sidebar, ev, sec, env, resp) :
                           sidebar \in {Sidebar(r, ev)}}})

(***************************************************************************)
(* Spec: the application, one action per button                            *)
(***************************************************************************)
AuthResult(token) == [session |-> Session(token), user |-> User(token)]

NoAuth == [k |-> "none"]

\* What supabase.auth answers to sign_in and sign_up.
AuthOutcomes ==
    {Raise("AuthApiError"), Ret(None)} \cup {Ret(AuthResult(t)) : t \in Tokens}

\* A form submitted with a blank field, or with an answer of the auth API.
FormInputs ==
    {[blank |-> TRUE, auth |-> NoAuth]}
    \cup {[blank |-> FALSE, auth |-> a] : a \in AuthOutcomes}

\* The sidebar as it stands: the default switches, the default model.
AppConfigs == {Config("2", "advanced", TRUE, TRUE, TRUE, FALSE, TRUE)}

Entry1 == HistoryEntry(<<"a", "B">>, <<"b">>, "2", "basic")
Entry2 == HistoryEntry(<<"a", "B">>, <<"B", "a">>, "5", "premium")

Stats(n) == Obj([stats |-> Obj([totalAdaptations |-> Num(n)])])

\* Answers to an adaptation request: failures of each kind, a body that is
\* no object, and two different adaptations.
AppAdaptResponses(provider) ==
    IF provider = "direct"
    THEN {[kind |-> "exc", exc |-> "Timeout"],
          Http(500, [text |-> <<>>, json |-> Invalid]),
          Http(200, JsonBody("{'choices':[{'message':{'content':' Hi\n'}}],'usage':{...}}",
                             Obj([choices |-> Lst(<<Message(PaddedHi)>>),
                                  usage |-> Usage])))}
    ELSE {[kind |-> "exc", exc |-> "ConnectionError"],
          Http(500, JsonBody("null", None)),
          Http(200, JsonBody("[]", Lst(<<>>))),
          Http(200, JsonBody("{}", EmptyDict)),
          Http(200, JsonBody("{'adaptedText':'boom'}",
                             Obj([adaptedText |-> Boom]))),
          Http(200, JsonBody("{'adaptedText':'Hi','metadata':{'model':'m'}}",
                             Obj([adaptedText |-> Hi,
                                  metadata |-> Obj([model |-> Str(<<"m">>)])])))}

\* Answers to an analytics fetch: failures of each kind, a body that is no
\* object, and two different snapshots.
AppAnalyticsResponses ==
    {Http(500, [text |-> <<"x", " ">>, json |-> Invalid]),
     Http(500, JsonBody("null", None)),
     Http(200, JsonBody("{'error':'boom'}", Obj([error |-> Boom]))),
     Http(200, JsonBody("'boom'", Boom)),
     Http(200, JsonBody("{'stats':{'totalAdaptations':1}}", Stats(1))),
     Http(200, JsonBody("{'stats':{'totalAdaptations':2}}", Stats(2)))}

\* Answers to a history fetch: failures of each kind, a body that is no
\* object, and two different lists.
AppHistoryResponses ==
    {[kind |-> "exc", exc |-> "ConnectionError"],
     Http(500, JsonBody("null", None)),
     Http(500, JsonBody("{'message':'boom'}", Obj([message |-> Boom]))),
     Http(200, JsonBody("[]", Lst(<<>>))),
     Http(200, JsonBody("{'history':[Entry1]}",
                        Obj([history |-> Lst(<<Entry1>>)]))),
     Http(200, JsonBody("{'history':[Entry2,Entry1]}",
                        Obj([history |-> Lst(<<Entry2, Entry1>>)])))}

Init ==
    /\ session = Absent
    /\ user = Absent
    /\ history_cache = Absent
    /\ analytics_cache = Absent
    /\ output_text = Absent
    /\ metadata = Absent
    /\ secrets = [kind |-> "mapping", data |-> EmptyDict]
    /\ environ \in Environs
    /\ calls = <<>>
    /\ view = NoView
    /\ args = None

\* The run as it starts: the session state, nothing called or shown yet.
Run0 ==
    [session |-> session, user |-> user, history_cache |-> history_cache,
     analytics_cache |-> analytics_cache, output_text |-> output_text,
     metadata |-> metadata, calls |-> <<>>, notices |-> <<>>,
     auth |-> NoAuth, run |-> "running", crash |-> "", rerun |-> FALSE]

\* The session state and the page as the run leaves them.
Commit(r) ==
    /\ session' = r.session
    /\ user' = r.user
    /\ history_cache' = r.history_cache
    /\ analytics_cache' = r.analytics_cache
    /\ output_text' = r.output_text
    /\ metadata' = r.metadata
    /\ calls' = r.calls
    /\ view' = [notices |-> r.notices, auth |-> r.auth, crash |-> r.crash,
                rerun |-> r.rerun,
                run |-> IF r.run = "running" THEN "done" ELSE r.run]
    /\ UNCHANGED <<secrets, environ, args>>

\* One run of main() for a clicked button: each tab in turn, each fetch
\* answered by the backend only when the run makes it.
ScriptRun(ev, adapt_responses) ==
    \E ra \in adapt_responses :
    \E r0 \in {Run0} :
    \E r1 \in {FirstPart(r0, ev, secrets, environ, ra)} :
    \E seen \in {IF r1.rerun THEN NoEvent ELSE ev} :
    \E rn \in (IF AnalyticsFetches(r1, seen)
               THEN AppAnalyticsResponses ELSE {NoResponse}) :
    \E r2 \in {AnalyticsTab(r1, seen, rn)} :
    \E rh \in (IF HistoryFetches(r2, seen)
               THEN AppHistoryResponses ELSE {NoResponse}) :
    \E r3 \in {HistoryTab(r2, seen, rh)} :
        Commit(r3)

SignIn ==
    /\ IsNone(session)
    /\ \E form \in FormInputs :
          ScriptRun([button |-> "signin_button", blank |-> form.blank,
                     auth |-> form.auth], {NoResponse})

SignUp ==
    /\ IsNone(session)
    /\ \E form \in FormInputs :
          ScriptRun([button |-> "signup_button", blank |-> form.blank,
                     auth |-> form.auth], {NoResponse})

SignOut ==
    /\ ~IsNone(session)
    /\ \E remote \in {Ret(None), Raise("AuthApiError")} :
          ScriptRun([button |-> "signout_button", auth |-> remote],
                    {NoResponse})

Adapt ==
    /\ ~IsNone(session)
    /\ \E config \in AppConfigs :
          ScriptRun([button |-> "adapt_button", config |-> config,
                     text |-> SampleText],
                    AppAdaptResponses(Provider(secrets, environ)))

ClearInput ==
    /\ ~IsNone(session)
    /\ ScriptRun([button |-> "clear_input"], {NoResponse})

ClearOutput ==
    /\ ~IsNone(session)
    /\ Truthy(output_text)
    /\ ScriptRun([button |-> "clear_output"], {NoResponse})

RefreshAnalytics ==
    /\ ~IsNone(session)
    /\ ScriptRun([button |-> "refresh_analytics"], {NoResponse})

RefreshHistory ==
    /\ ~IsNone(session)
    /\ ScriptRun([button |-> "refresh_history"], {NoResponse})

\* Any other widget changes and the script runs with no button clicked.
WidgetChange == \E ev \in {NoEvent} : ScriptRun(ev, {NoResponse})

Next ==
    \/ SignIn
    \/ SignUp
    \/ SignOut
    \/ Adapt
    \/ ClearInput
    \/ ClearOutput
    \/ RefreshAnalytics
    \/ RefreshHistory
    \/ WidgetChange
    \/ SetEnviron

Spec == Init /\ [][Next]_vars

\* ---------------------------------------------------------------------
\* The consumers of the invoker results, checked on the state a run leaves.

\* The calls the last run made to the invoker fn that returned a value.
Returned(fn) ==
    {c \in Range(calls) : c.fn = fn /\ c.call.out.k = "return"}

\* The calls the last run made to the invoker fn, whatever their outcome.
Made(fn) == {c \in Range(calls) : c.fn = fn}

FailurePrefix(fn) ==
    CASE fn = "adapt_text" -> "Adaptation failed: "
      [] fn = "fetch_history" -> "Failed to fetch history: "
      [] fn = "fetch_analytics" -> "Failed to fetch analytics: "

ConsumerSites(fn) ==
    CASE fn = "adapt_text" -> {"adapt_result"}
      [] fn = "fetch_history" -> {"history_result"}
      [] fn = "fetch_analytics" -> {}

\* The run reported the result of fn as a failure.
TreatedAsFailure(fn) ==
    \E n \in Range(view.notices) :
        n.level = "error" /\ n.text = FailurePrefix(fn)

\* The payload of a successful result v of fn is where the page reads it.
HandedOn(fn, v) ==
    /\ view.crash \notin ConsumerSites(fn)
    /\ CASE fn = "adapt_text" ->
               IsDict(v) =>
                   /\ output_text = Get(v, "adaptedText", Str(<<>>))
                   /\ metadata = Get(v, "metadata", EmptyDict)
         [] fn = "fetch_history" ->
               IsDict(v) => history_cache = Get(v, "history", Lst(<<>>))
         [] fn = "fetch_analytics" -> analytics_cache = v

\* C3: every value an invoker (adapt_text, fetch_history, fetch_analytics)
\* returned in a run is reported as a failure exactly when it carries a
\* non-empty error; every other returned value is taken as a success and
\* its payload (adaptedText and metadata, the history list, the analytics
\* snapshot) is handed on to the page.
C3_ErrorIndicatorDecides ==
    \A fn \in {"adapt_text", "fetch_history", "fetch_analytics"} :
        \A c \in Returned(fn) :
            IF IsFailure(c.call.out.v)
            THEN TreatedAsFailure(fn)
            ELSE ~TreatedAsFailure(fn) /\ HandedOn(fn, c.call.out.v)

\* A fetch that failed: the invoker raised or returned an error result.
FetchFailed(c) == c.call.out.k = "raise" \/ IsFailure(c.call.out.v)

\* C4: after a run that fetched history (analytics), the cache follows that
\* fetch alone: a failed fetch leaves a cache that reads empty/null, never
\* the data of an earlier fetch; a successful fetch leaves exactly its own
\* payload in the cache.
C4_CacheFollowsLastFetch ==
    /\ \A c \in Made("fetch_history") :
           IF FetchFailed(c)
           THEN ~Truthy(ReadHistory(history_cache))
           ELSE IsDict(c.call.out.v) =>
                    history_cache = Get(c.call.out.v, "history", Lst(<<>>))
    /\ \A c \in Made("fetch_analytics") :
           IF FetchFailed(c)
           THEN ~Truthy(ReadAnalytics(analytics_cache))
           ELSE analytics_cache = c.call.out.v

\* ---------------------------------------------------------------------
\* The caches and the session.

\* Neither cache holds data, as the history and the analytics page read it.
CachesEmpty ==
    /\ ~Truthy(ReadHistory(history_cache))
    /\ ~Truthy(ReadAnalytics(analytics_cache))

NoSessionNoCache == IsNone(session) => CachesEmpty

\* A run that started with a session and whose auth call raised: a click on
\* "Sign out" whose remote sign-out failed.
RemoteSignOutFailed ==
    ~IsNone(session) /\ view'.auth = Raise("AuthApiError")

\* A step that ends a session leaves none of the four keys.
SessionEndClearsAll ==
    (~IsNone(session) /\ IsNone(session')) =>
        /\ session' = Absent /\ user' = Absent
        /\ history_cache' = Absent /\ analytics_cache' = Absent

\* What a cache holds after a sign-in was fetched in that run with the
\* access token of the new session.
FetchedUnderNewSession ==
    (IsNone(session) /\ ~IsNone(session')) =>
        /\ Truthy(ReadHistory(history_cache')) =>
               \E i \in DOMAIN calls' :
                   /\ calls'[i].fn = "fetch_history"
                   /\ calls'[i].call.net[1].bearer = session'.access_token
        /\ Truthy(ReadAnalytics(analytics_cache')) =>
               \E i \in DOMAIN calls' :
                   /\ calls'[i].fn = "fetch_analytics"
                   /\ calls'[i].call.net[1].bearer = session'.access_token

\* C13: in every reachable state without a session neither the history
\* cache nor the analytics cache holds data; a sign-out removes session,
\* user and both caches even when the remote sign-out fails; and what a
\* cache holds after the next sign-in was fetched under the new session.
C13_NoSessionNoCachedData ==
    /\ []NoSessionNoCache
    /\ [][/\ RemoteSignOutFailed => IsNone(session')
          /\ SessionEndClearsAll
          /\ FetchedUnderNewSession]_vars

\* C13 witness: a session that had adapted a text was ended by a sign-out
\* whose remote call failed, and the state holds no session and no cache.
C13_Witness ==
    /\ IsNone(session)
    /\ view # NoView
    /\ view.rerun
    /\ view.auth = Raise("AuthApiError")
    /\ Truthy(output_text)
    /\ CachesEmpty

\* ---------------------------------------------------------------------
\* The stored output across an adaptation request.

\* An adaptation that ended in a failure: the invoker raised, returned an
\* error result, or returned a value the page cannot read.
AdaptFailed(c) ==
    \/ c.call.out.k = "raise"
    \/ IsFailure(c.call.out.v)
    \/ ~IsDict(c.call.out.v)

\* The step is a run with a click on "Adapt text" whose request is c.
AdaptRequestIn(c) ==
    \E i \in DOMAIN calls' : calls'[i] = c /\ c.fn = "adapt_text"

\* The invoker calls of the run a step makes.
NextAdaptCalls == {calls'[i] : i \in DOMAIN calls'}

OutputKept == output_text' = output_text /\ metadata' = metadata

\* The stored output is the payload of the successful request c.
OutputOf(c) ==
    /\ output_text' = Get(c.call.out.v, "adaptedText", Str(<<>>))
    /\ metadata' = Get(c.call.out.v, "metadata", EmptyDict)

\* The run of the step fetched for the cache of invoker fn.
FetchedIn(fn) == \E i \in DOMAIN calls' : calls'[i].fn = fn

\* C14, as claimed: a run whose adaptation request fails leaves output_text
\* and metadata as they were and does not touch the history and analytics
\* caches; a successful request stores its own payload.
C14_FailedAdaptLeavesAll ==
    [][\A c \in NextAdaptCalls :
          AdaptRequestIn(c) =>
              IF AdaptFailed(c)
              THEN /\ OutputKept
                   /\ history_cache' = history_cache
                   /\ analytics_cache' = analytics_cache
              ELSE OutputOf(c)]_vars

\* C14, amended: a run whose adaptation request fails leaves output_text
\* and metadata as they were, and a cache changes in that run only by the
\* run's own fetch for it (the tab fetches again when its cache is None);
\* a successful request stores its own payload.
C14_FailedAdaptLeavesOutput ==
    [][\A c \in NextAdaptCalls :
          AdaptRequestIn(c) =>
              IF AdaptFailed(c)
              THEN /\ OutputKept
                   /\ history_cache' # history_cache =>
                          FetchedIn("fetch_history")
                   /\ analytics_cache' # analytics_cache =>
                          FetchedIn("fetch_analytics")
              ELSE OutputOf(c)]_vars

\* C14 witness: after a failed adaptation request the page still holds the
\* text and the metadata of an earlier successful one.
C14_Witness ==
    /\ \E c \in Made("adapt_text") : AdaptFailed(c)
    /\ Truthy(output_text)
    /\ Truthy(metadata)

=============================================================================
